---- MODULE Spec2Model ----
(***************************************************************************)
(* Portfolio.report of cryptonaire_reports/reports/portfolio.py: the       *)
(* balance collector, the group-by-symbol aggregation, the left join with  *)
(* the market data, the value and percentage columns and the renamed table *)
(* handed to the writer.                                                   *)
(***************************************************************************)
EXTENDS Integers, Sequences, FiniteSets

\* ------------------------------------------------------------------ bounds
MaxBalances == 3    \* balance tuples collected in one run, all sources together

\* ------------------------------------------------- float64 (pandas columns)
\* A finite non-negative float64 holding an integer is hi * 2^27 + lo with
\* 0 <= lo < 2^27 (two limbs: TLC's integers are 32 bits wide).  The unit is
\* arbitrary (binary floating point is invariant under scaling by 2^k), so 1
\* stands for any power of two and 2^53 for that power times 2^53.
Base == 2^27
Float(hi, lo) == [nan |-> FALSE, hi |-> hi, lo |-> lo]
NaN == [nan |-> TRUE, hi |-> 0, lo |-> 0]
Zero == Float(0, 0)
One == Float(0, 1)
Two == Float(0, 2)
Two53 == Float(2^26, 0)

\* The exact integer sum of two limb pairs (no rounding).
ExactAdd(a, b) ==
  LET lo == a.lo + b.lo
  IN Float(a.hi + b.hi + (lo \div Base), lo % Base)

\* Spacing of float64 values (53-bit significand) at magnitude hi * 2^27.
Ulp(hi) ==
  IF hi < 2^26 THEN 1
  ELSE IF hi < 2^27 THEN 2
  ELSE IF hi < 2^28 THEN 4
  ELSE IF hi < 2^29 THEN 8
  ELSE 16

\* IEEE 754 round-to-nearest, ties-to-even, of an exact integer to float64.
RoundToDouble(v) ==
  LET u == Ulp(v.hi)
      r == v.lo % u
      down == v.lo - r
      up == (2 * r > u) \/ (2 * r = u /\ (down \div u) % 2 = 1)
      lo1 == IF up THEN down + u ELSE down
  IN IF lo1 = Base THEN Float(v.hi + 1, 0) ELSE Float(v.hi, lo1)

\* float64 addition as the sum of a float64 column performs it.
FAdd(a, b) ==
  IF a.nan \/ b.nan THEN NaN ELSE RoundToDouble(ExactAdd(a, b))

\* float64 multiplication balance * price_usd; the prices of the model are
\* small integers (b.hi = 0, b.lo < 16), so the exact product fits the limbs.
FMul(a, b) ==
  IF a.nan \/ b.nan THEN NaN
  ELSE LET lo == a.lo * b.lo
       IN RoundToDouble(Float(a.hi * b.lo + (lo \div Base), lo % Base))

\* A quotient x / s of two float64 values: the correctly rounded quotient is
\* a function of (x, s); it is kept as that pair.  s = 0 gives NaN for 0 / 0
\* and infinity for x > 0 (numpy division does not raise).
Quot(nan, inf, num, den) == [nan |-> nan, inf |-> inf, num |-> num, den |-> den]
FDiv(x, s) ==
  IF x.nan \/ s.nan THEN Quot(TRUE, FALSE, Zero, Zero)
  ELSE IF s = Zero
       THEN IF x = Zero THEN Quot(TRUE, FALSE, Zero, Zero)
            ELSE Quot(FALSE, TRUE, Zero, Zero)
       ELSE Quot(FALSE, FALSE, x, s)

\* Series.sum(): skipna=True, left-to-right float64 additions starting at 0.
RECURSIVE SeriesSum(_)
SeriesSum(s) ==
  IF s = <<>> THEN Zero
  ELSE LET rest == SeriesSum(SubSeq(s, 1, Len(s) - 1))
           last == s[Len(s)]
       IN IF last.nan THEN rest ELSE FAdd(rest, last)

\* ------------------------------------------------------------------ inputs
\* Names of the source adapters Report.__init__ may configure.
ExchangeNames == <<"binance", "kraken">>
NetworkNames == <<"solana">>
ManualName == "manual"
NoManual == "None"

\* Ticker symbols, in the order groupby sorts them.
SymbolOrder == <<"BTC", "ETH">>
Symbols == {SymbolOrder[k] : k \in 1..Len(SymbolOrder)}

\* Balances an adapter may report.
Balances == {One, Two53}

\* What one adapter's get_balances() call may do: return None, return a list
\* of (source, symbol, balance) tuples (possibly empty), or raise.
None == [kind |-> "none", recs |-> <<>>]
Raise == [kind |-> "raise", recs |-> <<>>]
List(recs) == [kind |-> "list", recs |-> recs]
BalanceTuples(name) == {<<name, s, b>> : s \in Symbols, b \in Balances}
AdapterResults(name, room) ==
  {None, Raise} \cup
  {List(recs) : recs \in UNION {[1..k -> BalanceTuples(name)] : k \in 0..room}}

\* What get_coin_info may return for the requested symbols: a dict with an
\* entry for some symbols (any subset of the catalogue), each entry holding the
\* fields named in the docstring of extract_additional_coin_info; price_usd is
\* a price or null.
CoinInfoFields ==
  <<"name", "price_usd", "rank", "market_cap", "max_supply", "total_supply",
    "circulating_supply">>
Str(s) == [nan |-> FALSE, str |-> s]
Prices == {Zero, Two}
CoinInfo(s, price) == <<Str(s), price, One, One, One, One, One>>
ProviderOutputs ==
  UNION {[D -> Prices \cup {NaN}] : D \in SUBSET Symbols}

\* ------------------------------------------------------- pandas operations
Range(f) == {f[k] : k \in DOMAIN f}
Column(recs, c) == [k \in 1..Len(recs) |-> recs[k][c]]
IndexOf(seq, x) == CHOOSE k \in 1..Len(seq) : seq[k] = x
Has(seq, x) == \E k \in 1..Len(seq) : seq[k] = x

\* A DataFrame: its index, its column labels and one tuple of cells per row.
Table(index, columns, rows) == [index |-> index, columns |-> columns, rows |-> rows]
NoTable == Table(<<>>, <<>>, <<>>)
Cell(t, k, c) == t.rows[k][IndexOf(t.columns, c)]

\* Iteration order of a Python set of strings.  It follows the strings' hashes,
\* which the interpreter salts anew in every process: seed is the order this
\* process visits the source names in.
Seeds(balances) ==
  LET S == Range(Column(balances, 1))
  IN {p \in [1..Cardinality(S) -> S] : \A a, b \in DOMAIN p : a # b => p[a] # p[b]}
SetIter(S, seed) == SelectSeq(seed, LAMBDA x : x \in S)

\* "|".join(names): the names with a separator between neighbours.
RECURSIVE StrJoin(_)
StrJoin(names) ==
  IF Len(names) <= 1 THEN names
  ELSE <<Head(names), "|">> \o StrJoin(Tail(names))

\* combine_balances with the sources joined as they come, without set().
combine_balances_no_set(row, seed) ==
  <<StrJoin(Column(row, 1)), SeriesSum(Column(row, 3))>>

\* combine_balances on the rows of one symbol: (source, balance).
combine_balances(row, seed) ==
  <<StrJoin(SetIter(Range(Column(row, 1)), seed)), SeriesSum(Column(row, 3))>>

\* balances_pdf.groupby(by=["symbol"]).apply(combine_balances): one row per
\* symbol, keys sorted, rows of a group in their input order.  Without any
\* group, apply returns an empty frame with the columns of balances_pdf.
GroupKeys(balances) ==
  SelectSeq(SymbolOrder, LAMBDA s : \E k \in 1..Len(balances) : balances[k][2] = s)
GroupRows(balances, s) == SelectSeq(balances, LAMBDA r : r[2] = s)
GroupBy(balances, seed) ==
  LET keys == GroupKeys(balances)
  IN IF keys = <<>>
     THEN Table(<<>>, <<"source", "symbol", "balance">>, <<>>)
     ELSE Table(keys, <<"source", "balance">>,
                [k \in 1..Len(keys) |->
                   combine_balances(GroupRows(balances, keys[k]), seed)])

\* pd.DataFrame.from_dict(coin_info_dict, orient="index"): no columns for an
\* empty dict; a null price becomes NaN.
CoinInfoColumns(dict) == IF DOMAIN dict = {} THEN <<>> ELSE CoinInfoFields

\* groupped_balances_pdf.join(coin_info_pdf): left join on the index; a symbol
\* without an entry gets NaN in every column of coin_info_pdf.
LeftJoin(left, dict) ==
  LET cols == CoinInfoColumns(dict)
      right(s) == IF s \in DOMAIN dict THEN CoinInfo(s, dict[s])
                  ELSE [c \in 1..Len(CoinInfoFields) |-> NaN]
  IN Table(left.index, left.columns \o cols,
           [k \in 1..Len(left.rows) |->
              left.rows[k] \o (IF cols = <<>> THEN <<>> ELSE right(left.index[k]))])

\* report_pdf["total_value_usd"] = report_pdf["balance"] * report_pdf["price_usd"]
WithTotalValue(t) ==
  Table(t.index, Append(t.columns, "total_value_usd"),
        [k \in 1..Len(t.rows) |->
           Append(t.rows[k], FMul(Cell(t, k, "balance"), Cell(t, k, "price_usd")))])

\* report_pdf[["total_value_usd"]].apply(lambda x: x / x.sum())
WithPercentage(t) ==
  LET total == SeriesSum([k \in 1..Len(t.rows) |-> Cell(t, k, "total_value_usd")])
  IN Table(t.index, Append(t.columns, "portfolio_percentage"),
           [k \in 1..Len(t.rows) |->
              Append(t.rows[k], FDiv(Cell(t, k, "total_value_usd"), total))])

\* get_rename_map(), in the order the dict is written.
RenameFrom ==
  <<"source", "symbol", "name", "rank", "market_cap", "max_supply",
    "total_supply", "circulating_supply", "balance", "price_usd",
    "total_value_usd", "portfolio_percentage">>
RenameTo ==
  <<"Exchange(s) / Network(s)", "Symbol", "Full Name", "Coin Rank",
    "Market Cap", "Max Supply", "Total Supply", "Circulating Supply",
    "Balance", "Price (USD)", "Total Value (USD)", "Portfolio Percentage">>
get_rename_map(c) == IF Has(RenameFrom, c) THEN RenameTo[IndexOf(RenameFrom, c)] ELSE c

\* reset_index(inplace=True) puts the index in front as the column "symbol";
\* rename(columns=...) relabels the columns and keeps their order.
ResetIndexAndRename(t) ==
  LET cols == <<"symbol">> \o t.columns
  IN Table(<<>>, [c \in 1..Len(cols) |-> get_rename_map(cols[c])],
           [k \in 1..Len(t.rows) |-> <<t.index[k]>> \o t.rows[k]])

\* ------------------------------------------------------------------- state
VARIABLES
  exchanges,              \* self.exchanges: the configured exchange adapters
  networks,               \* self.networks
  manual,                 \* self.manual: the manual adapter or None
  pc,                     \* position in report()
  i,                      \* index of the adapter the collecting loop is at
  called,                 \* the get_balances() calls made: <<adapter, outcome>>, in order
  exchange_balances,      \* result of get_balances_from_exchanges
  network_balances,       \* result of get_balances_from_networks
  manual_balances,        \* result of get_balances_from_manual_file
  groupped_balances_pdf,  \* balances grouped by symbol
  coin_info_dict,         \* what the market-data provider returned
  report_pdf,             \* the report table, as far as it is built
  error,                  \* the exception report() ended with, "" when none
  run,                    \* 1, or 2 in a second run on the same outputs
  first                   \* the table the first run handed to the writer

config == <<exchanges, networks, manual>>
collector == <<i, called, exchange_balances, network_balances, manual_balances>>
frames == <<groupped_balances_pdf, coin_info_dict, report_pdf>>
runs == <<run, first>>
vars == <<config, pc, collector, frames, error, runs>>

\* Python truthiness of an adapter result: None and [] are falsy.
Falsy(r) == r.kind = "none" \/ r.recs = <<>>

\* Tuples still allowed in this run (MaxBalances caps the run's input).
Room == MaxBalances - Len(exchange_balances) - Len(network_balances)

\* Portfolio.__init__ (through Report.__init__): the adapters are configured,
\* nothing has been collected.
Init ==
  /\ exchanges \in {SubSeq(ExchangeNames, 1, n) : n \in 0..Len(ExchangeNames)}
  /\ networks \in {SubSeq(NetworkNames, 1, n) : n \in 0..Len(NetworkNames)}
  /\ manual \in {NoManual, ManualName}
  /\ pc = "exchanges"
  /\ i = 1
  /\ called = <<>>
  /\ exchange_balances = <<>>
  /\ network_balances = <<>>
  /\ manual_balances = List(<<>>)
  /\ groupped_balances_pdf = NoTable
  /\ coin_info_dict = <<>>
  /\ report_pdf = NoTable
  /\ error = ""
  /\ run = 1
  /\ first = NoTable

\* report() ends with an exception.
Fail(e) ==
  /\ pc' = "failed"
  /\ error' = e

\* One iteration of the loop of get_balances_from_exchanges.  An exception of
\* exchange.get_balances() is not caught: it leaves the loop and report().
ExchangeGetBalances ==
  /\ pc = "exchanges"
  /\ i <= Len(exchanges)
  /\ \E r \in AdapterResults(exchanges[i], Room) :
       /\ called' = Append(called, <<exchanges[i], r>>)
       /\ IF r.kind = "raise"
          THEN /\ Fail("AdapterError")
               /\ UNCHANGED <<i, exchange_balances>>
          ELSE /\ exchange_balances' =
                    IF Falsy(r) THEN exchange_balances
                    ELSE exchange_balances \o r.recs
               /\ i' = i + 1
               /\ UNCHANGED <<pc, error>>
  /\ UNCHANGED <<config, network_balances, manual_balances, frames, runs>>

\* The loop over self.exchanges is exhausted: return balances.
ExchangesReturn ==
  /\ pc = "exchanges"
  /\ i > Len(exchanges)
  /\ pc' = "networks"
  /\ i' = 1
  /\ UNCHANGED <<config, called, exchange_balances, network_balances,
                 manual_balances, frames, error, runs>>

\* One iteration of the loop of get_balances_from_networks.
NetworkGetBalances ==
  /\ pc = "networks"
  /\ i <= Len(networks)
  /\ \E r \in AdapterResults(networks[i], Room) :
       /\ called' = Append(called, <<networks[i], r>>)
       /\ IF r.kind = "raise"
          THEN /\ Fail("AdapterError")
               /\ UNCHANGED <<i, network_balances>>
          ELSE /\ network_balances' =
                    IF Falsy(r) THEN network_balances
                    ELSE network_balances \o r.recs
               /\ i' = i + 1
               /\ UNCHANGED <<pc, error>>
  /\ UNCHANGED <<config, exchange_balances, manual_balances, frames, runs>>

\* The loop over self.networks is exhausted: return balances.
NetworksReturn ==
  /\ pc = "networks"
  /\ i > Len(networks)
  /\ pc' = "manual"
  /\ i' = 1
  /\ UNCHANGED <<config, called, exchange_balances, network_balances,
                 manual_balances, frames, error, runs>>

\* get_balances_from_manual_file: [] without a manual adapter, otherwise
\* whatever self.manual.get_balances() returns, unchecked.
GetBalancesFromManualFile ==
  /\ pc = "manual"
  /\ IF manual = NoManual
     THEN /\ manual_balances' = List(<<>>)
          /\ pc' = "concat"
          /\ UNCHANGED <<called, error>>
     ELSE \E r \in AdapterResults(manual, Room) :
            /\ called' = Append(called, <<manual, r>>)
            /\ IF r.kind = "raise"
               THEN /\ Fail("AdapterError")
                    /\ UNCHANGED manual_balances
               ELSE /\ manual_balances' = r
                    /\ pc' = "concat"
                    /\ UNCHANGED error
  /\ UNCHANGED <<config, i, exchange_balances, network_balances, frames, runs>>

\* balances = exchange_balances + network_balances + manual_balances
Concat == exchange_balances \o network_balances \o manual_balances.recs

\* The concatenation (list + None raises TypeError), the DataFrame and the
\* group-by of report().  The process's hash seed fixes the order the sources
\* of a group are joined in.
GroupBalances ==
  /\ pc = "concat"
  /\ IF manual_balances.kind = "none"
     THEN /\ Fail("TypeError")
          /\ UNCHANGED groupped_balances_pdf
     ELSE /\ \E seed \in Seeds(Concat) :
               groupped_balances_pdf' = GroupBy(Concat, seed)
          /\ pc' = "enrich"
          /\ UNCHANGED error
  /\ UNCHANGED <<config, collector, coin_info_dict, report_pdf, runs>>

\* extract_additional_coin_info, one call of the provider with the grouped
\* symbols, and the left join of its output.
JoinCoinInfo ==
  /\ pc = "enrich"
  /\ \E info \in ProviderOutputs :
       /\ coin_info_dict' = info
       /\ report_pdf' = LeftJoin(groupped_balances_pdf, info)
  /\ pc' = "value"
  /\ UNCHANGED <<config, collector, groupped_balances_pdf, error, runs>>

\* The total_value_usd and portfolio_percentage columns; report_pdf["price_usd"]
\* raises KeyError when the joined frame has no such column.
ComputeValues ==
  /\ pc = "value"
  /\ IF ~Has(report_pdf.columns, "price_usd")
     THEN /\ Fail("KeyError")
          /\ UNCHANGED report_pdf
     ELSE /\ report_pdf' = WithPercentage(WithTotalValue(report_pdf))
          /\ pc' = "rename"
          /\ UNCHANGED error
  /\ UNCHANGED <<config, collector, groupped_balances_pdf, coin_info_dict, runs>>

\* reset_index and rename, then write_csv_report or write_excel_report is
\* handed report_pdf; reset_index raises ValueError when the frame already has a
\* column named like the index.
RenameAndWrite ==
  /\ pc = "rename"
  /\ IF Has(report_pdf.columns, "symbol")
     THEN /\ Fail("ValueError")
          /\ UNCHANGED report_pdf
     ELSE /\ report_pdf' = ResetIndexAndRename(report_pdf)
          /\ pc' = "done"
          /\ UNCHANGED error
  /\ UNCHANGED <<config, collector, groupped_balances_pdf, coin_info_dict, runs>>

\* report() from the concatenation to the table handed to the writer, for
\* outputs on which no step raises.
ReportTable(balances, info, seed) ==
  ResetIndexAndRename(WithPercentage(WithTotalValue(
    LeftJoin(GroupBy(balances, seed), info))))

\* The program is run again, in a new process with its own hash seed; the
\* adapters and the provider return what they returned to the first run.
Rerun ==
  /\ pc = "done"
  /\ run = 1
  /\ run' = 2
  /\ first' = report_pdf
  /\ \E seed \in Seeds(Concat) :
       /\ groupped_balances_pdf' = GroupBy(Concat, seed)
       /\ report_pdf' = ReportTable(Concat, coin_info_dict, seed)
  /\ UNCHANGED <<config, pc, collector, coin_info_dict, error>>

Next ==
  \/ ExchangeGetBalances
  \/ ExchangesReturn
  \/ NetworkGetBalances
  \/ NetworksReturn
  \/ GetBalancesFromManualFile
  \/ GroupBalances
  \/ JoinCoinInfo
  \/ ComputeValues
  \/ RenameAndWrite
  \/ Rerun

Spec == Init /\ [][Next]_vars

\* Stages 2 to 4 alone: report() from the point where the collectors have
\* returned, with both exchanges configured, no network and no manual file.
InitCollected ==
  /\ exchanges = ExchangeNames
  /\ networks = <<>>
  /\ manual = NoManual
  /\ pc = "concat"
  /\ i = 1
  /\ \E r1 \in AdapterResults(ExchangeNames[1], MaxBalances) \ {Raise} :
       \E r2 \in AdapterResults(ExchangeNames[2], MaxBalances - Len(r1.recs)) \ {Raise} :
         /\ called = <<<<ExchangeNames[1], r1>>, <<ExchangeNames[2], r2>>>>
         /\ exchange_balances = r1.recs \o r2.recs
  /\ network_balances = <<>>
  /\ manual_balances = List(<<>>)
  /\ groupped_balances_pdf = NoTable
  /\ coin_info_dict = <<>>
  /\ report_pdf = NoTable
  /\ error = ""
  /\ run = 1
  /\ first = NoTable

NextPipeline ==
  \/ GroupBalances
  \/ JoinCoinInfo
  \/ ComputeValues
  \/ RenameAndWrite

SpecPipeline == InitCollected /\ [][NextPipeline]_vars

\* ----------------------------------------------------------------- helpers
CalledNames == Column(called, 1)
Configured == Range(exchanges) \cup Range(networks) \cup
              (IF manual = NoManual THEN {} ELSE {manual})
SourceNames == Range(ExchangeNames) \cup Range(NetworkNames) \cup {ManualName}
Terminal == pc \in {"done", "failed"}
\* report() got past the concatenation of the collected lists.
Collected ==
  \/ pc \in {"enrich", "value", "rename", "done"}
  \/ pc = "failed" /\ error \in {"KeyError", "ValueError"}
HeldSymbols == {Concat[k][2] : k \in 1..Len(Concat)}
Count(seq, x) == Cardinality({k \in 1..Len(seq) : seq[k] = x})
Distinct(seq) == \A a, b \in 1..Len(seq) : a # b => seq[a] # seq[b]
Reorderings(seq) ==
  {[k \in 1..Len(seq) |-> seq[p[k]]] :
     p \in {q \in [1..Len(seq) -> 1..Len(seq)] : Distinct(q)}}
RECURSIVE ExactSum(_)
ExactSum(col) ==
  IF col = <<>> THEN Zero ELSE ExactAdd(ExactSum(Tail(col)), Head(col))
IsZero(q) == ~q.nan /\ ~q.inf /\ q.num = Zero
\* The symbols of the rows of report_pdf: its index until reset_index, its
\* Symbol column afterwards.
ReportSymbols ==
  IF pc = "done"
  THEN [k \in 1..Len(report_pdf.rows) |-> Cell(report_pdf, k, "Symbol")]
  ELSE report_pdf.index
Joined == pc \in {"value", "rename", "done"} \/ (pc = "failed" /\ error = "KeyError")

\* ------------------------------------------------------------------ claims

\* C1  Conservation of balance: the grouped balance of every symbol is the
\* exact sum of the balances of the records with that symbol, and grouping any
\* permutation of those records gives the same balance.
C1_ConservationOfBalance ==
  pc = "enrich" =>
    \A k \in 1..Len(groupped_balances_pdf.index) :
      LET group == GroupRows(Concat, groupped_balances_pdf.index[k])
          seed == CHOOSE sd \in Seeds(Concat) : TRUE
      IN /\ Cell(groupped_balances_pdf, k, "balance") = ExactSum(Column(group, 3))
         /\ \A p \in Reorderings(group) :
              combine_balances(p, seed)[2] = Cell(groupped_balances_pdf, k, "balance")

\* C2  Source-set correctness: the source label of every symbol group names
\* each source that contributed a record of that symbol exactly once, whatever
\* the number of its records, names no other source, and separates the names
\* by "|".
C2_SourceSetCorrectness ==
  pc = "enrich" =>
    \A k \in 1..Len(groupped_balances_pdf.index) :
      LET label == Cell(groupped_balances_pdf, k, "source")
          group == GroupRows(Concat, groupped_balances_pdf.index[k])
          contributing == Range(Column(group, 1))
      IN /\ \A src \in SourceNames :
              Count(label, src) = IF src \in contributing THEN 1 ELSE 0
         /\ Len(label) = 2 * Cardinality(contributing) - 1
         /\ \A j \in 1..Len(label) : (j % 2 = 0) <=> (label[j] = "|")

\* C2 witness: a group of three records from the sources A, A, B has been
\* combined into a label of two names.
C2_Witness ==
  /\ pc = "enrich"
  /\ \E k \in 1..Len(groupped_balances_pdf.index) :
       LET group == GroupRows(Concat, groupped_balances_pdf.index[k])
       IN /\ Len(group) = 3
          /\ Cardinality(Range(Column(group, 1))) = 2
          /\ Len(Cell(groupped_balances_pdf, k, "source")) = 3

\* Lemma (the left join): whenever the join has been made, the report has
\* exactly one row for every symbol of the grouped balances, with or without an
\* entry of the provider, and no row for a symbol only the provider names.
JoinedRowsAreGroupedSymbols ==
  Joined =>
    /\ ReportSymbols = groupped_balances_pdf.index
    /\ Len(report_pdf.rows) = Len(groupped_balances_pdf.index)
    /\ \A s \in Symbols :
         Count(ReportSymbols, s) = IF s \in HeldSymbols THEN 1 ELSE 0

\* C3  The report is balance-driven: for every collected list and every
\* mapping of the provider, report() hands the writer a table with exactly one
\* row for each symbol of the grouped balances, with or without an entry of the
\* provider, and no row for a symbol only the provider names.
C3_BalanceDriven ==
  (Terminal /\ Collected) =>
    /\ pc = "done"
    /\ ReportSymbols = groupped_balances_pdf.index
    /\ \A s \in Symbols :
         Count(ReportSymbols, s) = IF s \in HeldSymbols THEN 1 ELSE 0

\* Lemma's case: a finished report for a portfolio holding a symbol the provider
\* has no entry for, while the provider has an entry for a symbol not held.
JoinedRowsCase ==
  /\ pc = "done"
  /\ \E s \in HeldSymbols : s \notin DOMAIN coin_info_dict
  /\ \E s \in DOMAIN coin_info_dict : s \notin HeldSymbols

\* C4  Unknown symbol: when the provider has no entry, or a null price, for a
\* held symbol, the run ends without error, the symbol's row is in the report,
\* with null descriptive fields when the entry is missing, and its
\* total_value_usd is 0.
C4_UnknownSymbolValuedZero ==
  (Terminal /\ Collected) =>
    \A k \in 1..Len(groupped_balances_pdf.index) :
      LET s == groupped_balances_pdf.index[k]
      IN (s \notin DOMAIN coin_info_dict \/ coin_info_dict[s].nan) =>
           /\ pc = "done"
           /\ Cell(report_pdf, k, "Symbol") = s
           /\ s \notin DOMAIN coin_info_dict => Cell(report_pdf, k, "Full Name").nan
           /\ Cell(report_pdf, k, "Total Value (USD)") = Zero

\* C5  Zero-denominator rule: when the total values of a finished report sum
\* to zero, every row's portfolio percentage is exactly 0.
C5_ZeroDenominator ==
  (pc = "done" /\
   SeriesSum([k \in 1..Len(report_pdf.rows) |->
                Cell(report_pdf, k, "Total Value (USD)")]) = Zero) =>
    \A k \in 1..Len(report_pdf.rows) :
      IsZero(Cell(report_pdf, k, "Portfolio Percentage"))

\* C6  Empty portfolio: when the collectors return without any balance record,
\* report() ends without error, the grouping is empty and the table handed to
\* the writer has no rows.
C6_EmptyPortfolio ==
  (Terminal /\ Collected /\ Concat = <<>>) =>
    /\ pc = "done"
    /\ error = ""
    /\ groupped_balances_pdf.index = <<>>
    /\ report_pdf.rows = <<>>

\* The concatenation of the non-empty results among the calls made.
RECURSIVE NonEmptyResults(_)
NonEmptyResults(calls) ==
  IF calls = <<>> THEN <<>>
  ELSE (IF Falsy(Head(calls)[2]) THEN <<>> ELSE Head(calls)[2].recs)
       \o NonEmptyResults(Tail(calls))

\* C7  Collector output: with no adapter raising, an empty or absent result of
\* any adapter is no error, and the collected list is the concatenation of the
\* non-empty results in the order the sources are configured.
C7_CollectorOutput ==
  /\ error # "TypeError"
  /\ Collected =>
       /\ CalledNames = exchanges \o networks \o
                        (IF manual = NoManual THEN <<>> ELSE <<manual>>)
       /\ Concat = NonEmptyResults(called)

\* C8  Failure isolation: when report() has ended, every configured adapter's
\* get_balances was invoked, also when one of them raised.
C8_FailureIsolation ==
  Terminal => \A a \in Configured : Count(CalledNames, a) = 1

\* C9  Fixed field set and order: the table handed to the writer has the twelve
\* labels of the rename map as its columns, in the map's order.
C9_FixedFieldOrder ==
  pc = "done" => report_pdf.columns = RenameTo

\* C10  Idempotence: a second run on the same adapter and provider outputs
\* hands the writer the table the first run handed it.
C10_Idempotence ==
  run = 2 => report_pdf = first

====
